---- MODULE Spec2Model ----
\* A model of sketches/meg/meg.ino: the 64-bit clock, the performance counters,
\* the sampler, the BLE message and the control loop of setup(), together with
\* the wireless stack's reader context.
\*
\* Widths.  micros() is a 32-bit counter and the clock and the perf accumulators
\* are 64-bit.  TLC's integers cannot hold 2^32, so the wrap period of micros()
\* is scaled down to UInt32Mod and the 64-bit modulus to UInt32Mod * UInt32Mod;
\* all arithmetic on those quantities is done modulo these values exactly as
\* the C++ unsigned arithmetic does it.  The 16-bit measurement values and the
\* bytes of the message keep their real widths.
EXTENDS Integers, Sequences, FiniteSets

\* ---------------------------------------------------------------- bounds
UInt32Mod == 4          \* stands for 2^32, the wrap period of micros()
MaxIter == 2            \* iterations of the while(true) loop that are explored

\* most microseconds that pass between two successive events when timing is free
MaxAdvance == UInt32Mod \div 2
\* the true time at which the exploration of free timing stops: two wrap periods
MaxTime == 2 * UInt32Mod

\* ---------------------------------------------------------------- widths
UInt64Mod == UInt32Mod * UInt32Mod
UInt16Mod == 65536
ByteMod == 256

\* values analogRead may return (uint16_t), and values used to exercise the codec
AdcValues == {0, 513}
CodecValues == {0, 1, 255, 256, 4095, 65535}
CodecBytes == {0, 1, 255}
CodecTimes == {0, 7}

\* ---------------------------------------------------------------- names
CounterNames == {"allMeasurements", "singleMeasurement", "ble"}
CounterOrder == <<"allMeasurements", "singleMeasurement", "ble">>
Pins == <<"A1", "A2", "A3">>

VARIABLES
  build,              \* "debug" when MEG_DEBUG is defined
  env,                \* what the environment may do: time steps and converter readings
  now,                \* true microseconds since boot (the hardware timer, unwrapped)
  g_ClockLastMicros,  \* meg::g_ClockLastMicros
  g_ClockAccumulator, \* meg::g_ClockAccumulator
  clockHist,          \* history of GetClockValue calls
  g_PerfCounters,     \* meg::g_PerfCounters
  perfHist,           \* history of the scoped measurements made on each counter
  timers,             \* the live BlockScopedPerfMeasurement objects of setup()
  pc,                 \* position of the control flow in setup()
  iter,               \* completed iterations of the while(true) loop
  m,                  \* m1, m2, m3 of the current iteration
  reading,            \* what analogRead returned for each pin in this iteration
  message,            \* the BLEDataMessage of the current iteration
  stack,              \* state of the BLE stack as driven by BLEApi::BLEApi
  attr,               \* value of the characteristic, a sequence of bytes
  lock,               \* holder of the stack's critical section
  wr,                 \* progress of the setValue in flight
  committed,          \* the last value a setValue completed
  published,          \* the values of the setValue calls begun so far, in order
  reader,             \* the stack's context serving a remote read
  serial,             \* the lines of the last perf report, and whether it trapped
  codec               \* inputs and outputs of the codec operations

vars == <<build, env, now, g_ClockLastMicros, g_ClockAccumulator, clockHist,
          g_PerfCounters, perfHist, timers, pc, iter, m, reading, message,
          stack, attr, lock, wr, committed, published, reader, serial, codec>>

\* ---------------------------------------------------------------- hardware
\* micros(): the low 32 bits of the microseconds since boot
micros(t) == t % UInt32Mod

\* ---------------------------------------------------------------- 64-bit clock
\* cur - g_ClockLastMicros on uint32_t operands
ClockDeltaNoWrap(cur, last) == IF cur >= last THEN cur - last ELSE 0
ClockDeltaSigned(cur, last) == cur - last
ClockDelta(cur, last) == (cur - last) % UInt32Mod

\* a clock that reads a counter of microseconds as wide as its accumulator
GetClockValueWide(t, last, acc) ==
  LET cur == t % UInt64Mod
  IN  [last |-> cur, acc |-> (acc + (cur - last)) % UInt64Mod]

\* GetClockValue() called at true time t: the new (last, accumulator) pair; the
\* value returned is the new accumulator.
GetClockValue(t, last, acc) ==
  LET cur == micros(t)
  IN  [last |-> cur, acc |-> (acc + ClockDelta(cur, last)) % UInt64Mod]

\* history kept beside a call made at true time t: whether a call was made, when
\* the last one was made, whether every gap between consecutive calls (and
\* between boot and the first call) was shorter than one wrap period, and how
\* often micros() wrapped between the previous call (or boot) and this one
ClockHistAfter(t) ==
  [called   |-> TRUE,
   callTime |-> t,
   spaced   |-> clockHist.spaced /\ (t - clockHist.callTime < UInt32Mod),
   wraps    |-> (t \div UInt32Mod) - (clockHist.callTime \div UInt32Mod)]

ClockHistInit == [called |-> FALSE, callTime |-> 0, spaced |-> TRUE, wraps |-> 0]

\* ---------------------------------------------------------------- perf counters
PerfCounter(label_) == [label |-> label_, accumulator |-> 0, counter |-> 0]

PerfCounters == [c \in CounterNames |-> PerfCounter(c)]

\* PerfCounters::size()
PerfCountersSize == Len(CounterOrder)

\* counter.accumulator += end - start (uint64_t); counter.counter += 1.
\* The 2^32 wrap of counter.counter lies beyond MaxIter iterations.
SubmitPerfMeasurement(counter, start, end) ==
  [label       |-> counter.label,
   accumulator |-> (counter.accumulator + ((end - start) % UInt64Mod)) % UInt64Mod,
   counter     |-> counter.counter + 1]

\* MEG_PERF expands to a BlockScopedPerfMeasurement only when MEG_DEBUG is defined
MEG_PERF_Always == TRUE
MEG_PERF == build = "debug"

\* BlockScopedPerfMeasurement's constructor run at true time t: m_Start, and
\* beside it the true time of the entry
ScopeEnter(t) == [live |-> MEG_PERF, m_Start |-> IF MEG_PERF THEN micros(t) ELSE 0,
                  entry |-> IF MEG_PERF THEN t ELSE 0]

NoTimer == [live |-> FALSE, m_Start |-> 0, entry |-> 0]

\* a scope exit that submits to the first counter, whatever its target
ScopeExitFirst(counters, c, timer, t) ==
  IF timer.live
  THEN [counters EXCEPT ![CounterOrder[1]] =
          SubmitPerfMeasurement(@, timer.m_Start, micros(t))]
  ELSE counters

\* ~BlockScopedPerfMeasurement run at true time t for the scope `timer` on
\* counter c: the counters afterwards
ScopeExit(counters, c, timer, t) ==
  IF timer.live
  THEN [counters EXCEPT ![c] = SubmitPerfMeasurement(@, timer.m_Start, micros(t))]
  ELSE counters

\* history of the scopes that have exited on each counter: how many, their true
\* durations added up, and whether each lasted less than one wrap period; and
\* the number of micros() calls made by scope constructors and destructors
PerfHistInit ==
  [scopes  |-> [c \in CounterNames |-> 0],
   elapsed |-> [c \in CounterNames |-> 0],
   short   |-> TRUE,
   reads   |-> 0]

\* the history after the constructor of `timer` has run
PerfHistEntered(hist, timer) ==
  IF timer.live THEN [hist EXCEPT !.reads = @ + 1] ELSE hist

PerfHistAfter(hist, c, timer, t) ==
  IF timer.live
  THEN [scopes  |-> [hist.scopes EXCEPT ![c] = @ + 1],
        elapsed |-> [hist.elapsed EXCEPT ![c] = @ + (t - timer.entry)],
        short   |-> hist.short /\ (t - timer.entry < UInt32Mod),
        reads   |-> hist.reads + 1]
  ELSE hist

\* 1000000 / avgMicros
HzNumerator == 1000000

\* what a division by zero may do: -1 stands for a trap, the rest for a quotient
DivByZeroOutcomes == {-1, 0, UInt64Mod - 1}

\* PrintPerfCounterToSerial: the line printed (none for a counter without
\* measurements) and whether the division trapped
PrintPerfCounterToSerial(counter, onZero) ==
  IF counter.counter <= 0
  THEN [out |-> <<>>, trap |-> FALSE]
  ELSE LET avgMicros == counter.accumulator \div counter.counter
       IN  IF avgMicros = 0
           THEN IF onZero = -1
                THEN [out |-> <<>>, trap |-> TRUE]
                ELSE [out |-> <<[label |-> counter.label, avgMicros |-> avgMicros,
                                 hz |-> onZero]>>,
                      trap |-> FALSE]
           ELSE [out |-> <<[label |-> counter.label, avgMicros |-> avgMicros,
                            hz |-> HzNumerator \div avgMicros]>>,
                 trap |-> FALSE]

\* PrintAllPerfCountersToSerial: the loop over g_PerfCounters[i] from index i on
RECURSIVE PrintCountersFrom(_, _, _)
PrintCountersFrom(counters, i, onZero) ==
  IF i > PerfCountersSize
  THEN [out |-> <<>>, trap |-> FALSE]
  ELSE LET one == PrintPerfCounterToSerial(counters[CounterOrder[i]], onZero)
       IN  IF one.trap
           THEN one
           ELSE LET rest == PrintCountersFrom(counters, i + 1, onZero)
                IN  [out |-> one.out \o rest.out, trap |-> rest.trap]

PrintAllPerfCountersToSerial(counters, onZero) == PrintCountersFrom(counters, 1, onZero)

\* ---------------------------------------------------------------- measurements
\* DataMeasurement() = default
DataMeasurementDefault == [time |-> 0, value |-> 0]

\* a measurement that keeps only the low byte of the reading
DataMeasurementByte(clockValue, value_) == [time |-> clockValue, value |-> value_ % ByteMod]

\* DataMeasurement(uint16_t value_): time{GetClockValue()}, value{value_}
DataMeasurement(clockValue, value_) == [time |-> clockValue, value |-> value_ % UInt16Mod]

\* the pin ReadMeasurement(pin) hands to analogRead
ReadMeasurementPinA1(pin) == 1
ReadMeasurementPin(pin) == pin

\* ---------------------------------------------------------------- BLE message
\* BLEDataMessage() = default
BLEDataMessageDefault == [v1 |-> 0, v2 |-> 0, v3 |-> 0]

\* BLEDataMessage(m1, m2, m3): v1{m1.value}, v2{m2.value}, v3{m3.value}
BLEDataMessageSwapped(m1, m2, m3) == [v1 |-> m1.value, v2 |-> m3.value, v3 |-> m2.value]
BLEDataMessage(m1, m2, m3) == [v1 |-> m1.value, v2 |-> m2.value, v3 |-> m3.value]

\* the object representation of a uint16_t on the little-endian target
UInt16BytesBigEndian(v) == <<(v \div ByteMod) % ByteMod, v % ByteMod>>
UInt16Bytes(v) == <<v % ByteMod, (v \div ByteMod) % ByteMod>>

\* the sizeof(BLEDataMessage) bytes setValue(const T&) copies out of the struct:
\* v1, v2, v3 in declaration order, no padding
MessageBytes(msg) == UInt16Bytes(msg.v1) \o UInt16Bytes(msg.v2) \o UInt16Bytes(msg.v3)

\* the client's decode of a 6-byte value: three little-endian uint16
Decode(bytes) ==
  <<bytes[1] + ByteMod * bytes[2], bytes[3] + ByteMod * bytes[4],
    bytes[5] + ByteMod * bytes[6]>>

\* ---------------------------------------------------------------- BLE stack
\* the stack before BLEDevice::init
StackInit ==
  [device |-> FALSE, server |-> FALSE, scanResponse |-> FALSE, minPreferred |-> 0,
   services |-> 0, characteristics |-> 0, readOnly |-> FALSE, started |-> FALSE,
   advertisedUUIDs |-> 0, advertising |-> FALSE, valueSets |-> 0, failed |-> FALSE]

\* what a call on the stack that reports success may report: failure only in an
\* environment with faults
StackOutcomes == IF env.faults THEN BOOLEAN ELSE {TRUE}

\* the value BLEApi::BLEApi gives the characteristic: setValue(BLEDataMessage{})
InitialValueString == [i \in 1..22 |-> 100]
InitialValue == MessageBytes(BLEDataMessageDefault)

\* the value setMeasurementMessage(m) hands to setValue
setMeasurementMessage(msg) == MessageBytes(msg)

\* the bytes the setValue at this position of setup() copies in
SetValueSource == IF pc = "set_initial" THEN InitialValue ELSE setMeasurementMessage(message)

\* the characteristic's critical section: a setValue and a read each run with it held
SetValueMayEnterUnlocked == TRUE
SetValueMayEnter == lock = "free"
ReadMayEnterUnlocked == TRUE
ReadMayEnter == lock = "free"

WrIdle == [phase |-> "idle", idx |-> 0]
ReaderInit == [pc |-> "idle", buf |-> <<>>, last |-> <<>>, candidates |-> {}, gen |-> 0]

\* the earliest setValue call, not before call `from`, that was given the value
\* `bytes`; -1 when no call begun so far was given it
Generation(bytes, from) ==
  LET matches == {g \in 1..Len(published) : g >= from /\ published[g] = bytes}
  IN  IF matches = {} THEN -1
      ELSE CHOOSE g \in matches : \A h \in matches : g <= h

\* a buffer of n bytes holding the old bytes where there are any
Resized(old, n) == [i \in 1..n |-> IF i <= Len(old) THEN old[i] ELSE 0]

\* ---------------------------------------------------------------- initial state
\* the state after boot, in a build b and an environment e
Boot(b, e) ==
  /\ build = b
  /\ env = e
  /\ now = 0
  /\ g_ClockLastMicros = 0
  /\ g_ClockAccumulator = 0
  /\ clockHist = ClockHistInit
  /\ g_PerfCounters = PerfCounters
  /\ perfHist = PerfHistInit
  /\ timers = [c \in {"allMeasurements", "ble"} |-> NoTimer]
  /\ pc = "serial_begin"
  /\ iter = 0
  /\ m = [i \in 1..3 |-> DataMeasurementDefault]
  /\ reading = [i \in 1..3 |-> -1]
  /\ message = BLEDataMessageDefault
  /\ stack = StackInit
  /\ attr = <<>>
  /\ lock = "free"
  /\ wr = WrIdle
  /\ committed = <<>>
  /\ published = <<>>
  /\ reader = ReaderInit
  /\ serial = [out |-> <<>>, trap |-> FALSE]
  /\ codec = [op |-> "none", values |-> <<0, 0, 0>>, times |-> <<0, 0, 0>>,
              bytes |-> <<>>, back |-> <<>>]

clockVars == <<g_ClockLastMicros, g_ClockAccumulator, clockHist>>
perfVars == <<g_PerfCounters, perfHist, timers>>
dataVars == <<m, reading, message>>
bleVars == <<stack, attr, lock, wr, committed, published>>

\* ---------------------------------------------------------------- setup(): INIT
\* Serial.begin(MEG_SERIAL_BAUD_RATE)
SerialBegin ==
  /\ pc = "serial_begin"
  /\ pc' = "ble_init"
  /\ UNCHANGED <<build, env, now, clockVars, perfVars, iter, dataVars, bleVars, reader,
                 serial, codec>>

\* one step of BLEApi::BLEApi that only drives the stack
CtorStep(from, to, stack2) ==
  /\ pc = from
  /\ pc' = to
  /\ stack' = stack2
  /\ UNCHANGED <<build, env, now, clockVars, perfVars, iter, dataVars, attr, lock, wr,
                 committed, published, reader, serial, codec>>

\* BLEDevice::init(MEG_BLE_LONG_NAME); m_Server = BLEDevice::createServer()
BleInit ==
  CtorStep("ble_init", "adv_config", [stack EXCEPT !.device = TRUE, !.server = TRUE])

\* advertising.setScanResponse(true); setMinPreferred(0x06); setMinPreferred(0x12)
AdvConfig ==
  CtorStep("adv_config", "create_service",
           [stack EXCEPT !.scanResponse = TRUE, !.minPreferred = 18])

\* m_ConfigurationService = m_Server->createService(...)
CreateService ==
  CtorStep("create_service", "create_characteristic",
           [stack EXCEPT !.services = @ + 1])

\* m_DeviceInfoCharacteristic = createCharacteristic(..., NIMBLE_PROPERTY::READ)
CreateCharacteristic ==
  CtorStep("create_characteristic", "set_initial",
           [stack EXCEPT !.characteristics = @ + 1, !.readOnly = TRUE])

\* m_ConfigurationService->start(); its result is discarded
StartService ==
  \E ok \in StackOutcomes :
    CtorStep("start_service", "add_uuid",
             IF ok THEN [stack EXCEPT !.started = TRUE] ELSE [stack EXCEPT !.failed = TRUE])

\* a constructor that never adds the service identifier to the advertisement
AddServiceUUIDSkipped ==
  CtorStep("add_uuid", "start_advertising", stack)

\* advertising.addServiceUUID(MEG_BLE_CONFIGURATION_SERVICE_UUID)
AddServiceUUID ==
  CtorStep("add_uuid", "start_advertising", [stack EXCEPT !.advertisedUUIDs = @ + 1])

\* BLEDevice::startAdvertising(), its result discarded; the constructor returns
\* and the loop is entered
StartAdvertising ==
  \E ok \in StackOutcomes :
    CtorStep("start_advertising", "loop_begin",
             IF ok THEN [stack EXCEPT !.advertising = TRUE]
                   ELSE [stack EXCEPT !.failed = TRUE])

\* ---------------------------------------------------------------- setValue
\* m_DeviceInfoCharacteristic->setValue(...): enter the critical section
SetValueEnter ==
  /\ pc \in {"set_initial", "publish"}
  /\ wr.phase = "idle"
  /\ SetValueMayEnter
  /\ lock' = "loop"
  /\ wr' = [phase |-> "copy", idx |-> 0]
  /\ attr' = Resized(attr, Len(SetValueSource))
  /\ published' = Append(published, SetValueSource)
  /\ UNCHANGED <<build, env, now, clockVars, perfVars, pc, iter, dataVars, stack,
                 committed, reader, serial, codec>>

\* copy the next byte into the characteristic's value
SetValueCopy ==
  /\ wr.phase = "copy"
  /\ wr.idx < Len(SetValueSource)
  /\ attr' = [attr EXCEPT ![wr.idx + 1] = SetValueSource[wr.idx + 1]]
  /\ wr' = [wr EXCEPT !.idx = @ + 1]
  /\ UNCHANGED <<build, env, now, clockVars, perfVars, pc, iter, dataVars, stack, lock,
                 committed, published, reader, serial, codec>>

\* leave the critical section; setValue returns
SetValueExit ==
  /\ wr.phase = "copy"
  /\ wr.idx = Len(SetValueSource)
  /\ wr' = WrIdle
  /\ lock' = "free"
  /\ committed' = attr
  /\ pc' = IF pc = "set_initial" THEN "start_service" ELSE "ble_end"
  /\ stack' = [stack EXCEPT !.valueSets = @ + 1]
  /\ UNCHANGED <<build, env, now, clockVars, perfVars, iter, dataVars, attr,
                 published, reader, serial, codec>>

\* ---------------------------------------------------------------- setup(): SAMPLE
\* the publish whose setMeasurementMessage call is pending or in progress
PendingPublish == IF pc = "publish" THEN {setMeasurementMessage(message)} ELSE {}

\* top of the while(true) body: m1, m2, m3 default-constructed, then
\* MEG_PERF(allMeasurements) opens the sampling block
LoopBegin ==
  /\ pc = "loop_begin"
  /\ iter < env.iterations
  /\ \E d \in env.advance :
       /\ now + d <= env.horizon
       /\ now' = now + d
       /\ timers' = [timers EXCEPT !["allMeasurements"] = ScopeEnter(now + d)]
       /\ perfHist' = PerfHistEntered(perfHist, ScopeEnter(now + d))
  /\ m' = [i \in 1..3 |-> DataMeasurementDefault]
  /\ reading' = [i \in 1..3 |-> -1]
  /\ pc' = "read1"
  /\ UNCHANGED <<build, env, clockVars, g_PerfCounters, iter, message, bleVars,
                 reader, serial, codec>>

\* m_i = meg::ReadMeasurement(A_i): the scoped measurement on singleMeasurement
\* starts, analogRead returns v, DataMeasurement stamps it with GetClockValue(),
\* the scope ends
ReadMeasurement(i, from, to) ==
  /\ pc = from
  /\ \E d1 \in env.advance, d2 \in env.advance, d3 \in env.advance, v \in env.adc :
       LET t0 == now + d1
           t1 == t0 + d2
           t2 == t1 + d3
           timer == ScopeEnter(t0)
           pin == ReadMeasurementPin(i)
           clk == GetClockValue(t1, g_ClockLastMicros, g_ClockAccumulator)
       IN  /\ t2 <= env.horizon
           /\ now' = t2
           /\ reading' = [reading EXCEPT ![pin] = v]
           /\ g_ClockLastMicros' = clk.last
           /\ g_ClockAccumulator' = clk.acc
           /\ clockHist' = ClockHistAfter(t1)
           /\ m' = [m EXCEPT ![i] = DataMeasurement(clk.acc, v)]
           /\ g_PerfCounters' = ScopeExit(g_PerfCounters, "singleMeasurement", timer, t2)
           /\ perfHist' = PerfHistAfter(PerfHistEntered(perfHist, timer),
                                        "singleMeasurement", timer, t2)
  /\ pc' = to
  /\ UNCHANGED <<build, env, timers, iter, message, bleVars, reader, serial, codec>>

Sample1 == ReadMeasurement(1, "read1", "read2")
Sample2ThenPublish == ReadMeasurement(2, "read2", "all_end")
Sample2 == ReadMeasurement(2, "read2", "read3")
Sample3 == ReadMeasurement(3, "read3", "all_end")

\* the scope exit of `timer` (a member of timers) on counter c, going from
\* position `from` to position `to`
TimerExit(c, from, to) ==
  /\ pc = from
  /\ \E d \in env.advance :
       /\ now + d <= env.horizon
       /\ now' = now + d
       /\ g_PerfCounters' = ScopeExit(g_PerfCounters, c, timers[c], now + d)
       /\ perfHist' = PerfHistAfter(perfHist, c, timers[c], now + d)
  /\ timers' = [timers EXCEPT ![c] = NoTimer]
  /\ pc' = to
  /\ UNCHANGED <<build, env, clockVars, iter, dataVars, bleVars, reader, serial, codec>>

\* the closing brace of the sampling block: ~BlockScopedPerfMeasurement
EndAllMeasurements == TimerExit("allMeasurements", "all_end", "ble_begin")

\* MEG_PERF(ble); meg::BLEDataMessage message{m1, m2, m3}
BleBegin ==
  /\ pc = "ble_begin"
  /\ \E d \in env.advance :
       /\ now + d <= env.horizon
       /\ now' = now + d
       /\ timers' = [timers EXCEPT !["ble"] = ScopeEnter(now + d)]
       /\ perfHist' = PerfHistEntered(perfHist, ScopeEnter(now + d))
  /\ message' = BLEDataMessage(m[1], m[2], m[3])
  /\ pc' = "publish"
  /\ reader' = IF reader.pc = "reading"
               THEN [reader EXCEPT !.candidates =
                       @ \cup {setMeasurementMessage(BLEDataMessage(m[1], m[2], m[3]))}]
               ELSE reader
  /\ UNCHANGED <<build, env, clockVars, g_PerfCounters, iter, m, reading, bleVars,
                 serial, codec>>

\* the closing brace of the publish block: ~BlockScopedPerfMeasurement
BleEnd == TimerExit("ble", "ble_end", "report")

\* meg::PrintAllPerfCountersToSerial()
Report ==
  /\ pc = "report"
  /\ \E onZero \in DivByZeroOutcomes :
       /\ serial' = PrintAllPerfCountersToSerial(g_PerfCounters, onZero)
       /\ pc' = IF serial'.trap THEN "trapped" ELSE "delay"
  /\ UNCHANGED <<build, env, now, clockVars, perfVars, iter, dataVars, bleVars, reader, codec>>

\* a delay that also clears the value of the characteristic
DelayClearing ==
  /\ pc = "delay"
  /\ \E d \in env.advance \ {0} :
       /\ now + d <= env.horizon
       /\ now' = now + d
  /\ iter' = iter + 1
  /\ pc' = "loop_begin"
  /\ attr' = [i \in 1..Len(attr) |-> 0]
  /\ UNCHANGED <<build, env, clockVars, perfVars, dataVars, stack, lock, wr, committed,
                 published,
                 reader, serial, codec>>

\* delay(1000), then the next iteration
Delay ==
  /\ pc = "delay"
  /\ \E d \in env.advance \ {0} :
       /\ now + d <= env.horizon
       /\ now' = now + d
  /\ iter' = iter + 1
  /\ pc' = "loop_begin"
  /\ UNCHANGED <<build, env, clockVars, perfVars, dataVars, bleVars, reader, serial, codec>>

\* ---------------------------------------------------------------- remote reads
\* the stack's context starts serving a read of the characteristic
ReadBegin ==
  /\ stack.advertising
  /\ reader.pc = "idle"
  /\ ReadMayEnter
  /\ lock' = "stack"
  /\ reader' = [pc |-> "reading", buf |-> <<>>, last |-> reader.last,
                candidates |-> {committed} \cup PendingPublish, gen |-> reader.gen]
  /\ UNCHANGED <<build, env, now, clockVars, perfVars, pc, iter, dataVars, stack, attr, wr,
                 committed, published, serial, codec>>

\* it copies the next byte of the value
ReadCopy ==
  /\ reader.pc = "reading"
  /\ Len(reader.buf) < Len(attr)
  /\ reader' = [reader EXCEPT !.buf = Append(@, attr[Len(@) + 1])]
  /\ UNCHANGED <<build, env, now, clockVars, perfVars, pc, iter, dataVars, bleVars, serial,
                 codec>>

\* the read response is complete
ReadEnd ==
  /\ reader.pc = "reading"
  /\ Len(reader.buf) >= Len(attr)
  /\ reader' = [reader EXCEPT !.pc = "idle", !.last = reader.buf, !.buf = <<>>,
                              !.gen = Generation(reader.buf, reader.gen)]
  /\ lock' = "free"
  /\ UNCHANGED <<build, env, now, clockVars, perfVars, pc, iter, dataVars, stack, attr, wr,
                 committed, published, serial, codec>>

\* ---------------------------------------------------------------- specifications
Setup ==
  \/ SerialBegin \/ BleInit \/ AdvConfig \/ CreateService \/ CreateCharacteristic
  \/ SetValueEnter \/ SetValueCopy \/ SetValueExit
  \/ StartService \/ AddServiceUUID \/ StartAdvertising
  \/ LoopBegin \/ Sample1 \/ Sample2 \/ Sample3 \/ EndAllMeasurements
  \/ BleBegin \/ BleEnd \/ Report \/ Delay

\* the events of one iteration at which time is read or spent: two scope entries,
\* two scope exits, three in each of the three ReadMeasurement calls, the delay
TimedEvents == 14

\* The device with a remote reader: time moves one microsecond per event, the
\* converter returns any of AdcValues.
Init ==
  Boot("debug", [faults |-> FALSE, advance |-> {1}, adc |-> AdcValues, iterations |-> MaxIter,
                 horizon |-> TimedEvents * MaxIter])

Next == Setup \/ ReadBegin \/ ReadCopy \/ ReadEnd

Spec == Init /\ [][Next]_vars

\* The device alone, with every timing of its events: between two events 0 to
\* MaxAdvance microseconds pass, up to MaxTime; the converter returns one value,
\* and one iteration of the loop is followed.
InitTiming ==
  Boot("debug", [faults |-> FALSE, advance |-> 0..MaxAdvance, adc |-> {513}, iterations |-> 1,
                 horizon |-> MaxTime])

NextTiming == Setup

SpecTiming == InitTiming /\ [][NextTiming]_vars

\* Both builds of the device, MEG_DEBUG defined and not: time moves one
\* microsecond per event, the converter returns any of AdcValues.
InitBuilds ==
  \E b \in {"debug", "release"} :
    Boot(b, [faults |-> FALSE, advance |-> {1}, adc |-> AdcValues, iterations |-> MaxIter,
             horizon |-> TimedEvents * MaxIter])

NextBuilds == Setup

SpecBuilds == InitBuilds /\ [][NextBuilds]_vars

\* The device with a wireless stack that may fail to start the service or the
\* advertising.
InitFaults ==
  Boot("debug", [faults |-> TRUE, advance |-> {1}, adc |-> AdcValues,
                 iterations |-> MaxIter, horizon |-> TimedEvents * MaxIter])

NextFaults == Setup

SpecFaults == InitFaults /\ [][NextFaults]_vars

\* ---------------------------------------------------------------- the clock alone
\* GetClockValue under any sequence of calls: time passes, calls are made
ClockTick ==
  /\ \E d \in env.advance \ {0} :
       /\ now + d <= env.horizon
       /\ now' = now + d
  /\ UNCHANGED <<build, env, clockVars, perfVars, pc, iter, dataVars, bleVars, reader,
                 serial, codec>>

ClockCall ==
  /\ LET clk == GetClockValue(now, g_ClockLastMicros, g_ClockAccumulator)
     IN  /\ g_ClockLastMicros' = clk.last
         /\ g_ClockAccumulator' = clk.acc
  /\ clockHist' = ClockHistAfter(now)
  /\ UNCHANGED <<build, env, now, perfVars, pc, iter, dataVars, bleVars, reader,
                 serial, codec>>

InitClock ==
  Boot("debug", [faults |-> FALSE, advance |-> 0..MaxAdvance, adc |-> {513}, iterations |-> 0,
                 horizon |-> MaxTime + UInt32Mod])

NextClock == ClockTick \/ ClockCall

SpecClock == InitClock /\ [][NextClock]_vars

\* ---------------------------------------------------------------- the codec alone
\* encode: the bytes of BLEDataMessage(m1, m2, m3), and their decoding
CodecEncode ==
  /\ codec.op = "none"
  /\ \E v \in [1..3 -> CodecValues], t \in [1..3 -> CodecTimes] :
       LET bytes == MessageBytes(BLEDataMessage([time |-> t[1], value |-> v[1]],
                                                [time |-> t[2], value |-> v[2]],
                                                [time |-> t[3], value |-> v[3]]))
       IN  codec' = [op |-> "encode", values |-> <<v[1], v[2], v[3]>>,
                     times |-> <<t[1], t[2], t[3]>>, bytes |-> bytes,
                     back |-> Decode(bytes)]
  /\ UNCHANGED <<build, env, now, clockVars, perfVars, pc, iter, dataVars, bleVars,
                 reader, serial>>

\* decode: the values of any 6 bytes, and their encoding
CodecDecode ==
  /\ codec.op = "none"
  /\ \E b \in [1..6 -> CodecBytes] :
       LET vals == Decode(b)
       IN  codec' = [op |-> "decode", values |-> vals, times |-> <<0, 0, 0>>,
                     bytes |-> <<b[1], b[2], b[3], b[4], b[5], b[6]>>,
                     back |-> MessageBytes(BLEDataMessage([time |-> 0, value |-> vals[1]],
                                                          [time |-> 0, value |-> vals[2]],
                                                          [time |-> 0, value |-> vals[3]]))]
  /\ UNCHANGED <<build, env, now, clockVars, perfVars, pc, iter, dataVars, bleVars,
                 reader, serial>>

NextCodec == CodecEncode \/ CodecDecode

SpecCodec == Init /\ [][NextCodec]_vars

\* ================================================================ properties

\* the value of two bytes read as a little-endian unsigned 16-bit integer
LittleEndian16(lo, hi) == lo + 256 * hi

IsByte(b) == b \in 0..255

\* ---------------------------------------------------------------- C1
\* C1: as long as consecutive GetClockValue calls (and boot and the first call)
\* are less than one wrap period of micros() apart, the value returned - the
\* accumulator - equals the true microseconds since boot at the call, wraps of
\* micros() between calls included, and it never decreases from call to call.
C1_ClockExactAndMonotone ==
  /\ []((clockHist.called /\ clockHist.spaced)
          => g_ClockAccumulator = clockHist.callTime)
  /\ [][clockHist.spaced' => g_ClockAccumulator' >= g_ClockAccumulator]_vars

\* a call made after micros() has wrapped, every gap having been short
C1_Witness ==
  /\ clockHist.called
  /\ clockHist.spaced
  /\ clockHist.callTime > UInt32Mod
  /\ g_ClockLastMicros < clockHist.callTime
  /\ g_ClockAccumulator = clockHist.callTime

\* ---------------------------------------------------------------- C2
\* C2: a read served while a publish overwrites the value from A to B returns
\* all six bytes of A or all six bytes of B: every completed read returns the
\* value committed when it began or the value of a publish that overlapped it.
C2_AtomicPublish ==
  (reader.pc = "idle" /\ reader.last # <<>>) => reader.last \in reader.candidates

\* a read that completed and had overlapped a publish of a different value
C2_Witness ==
  /\ reader.pc = "idle"
  /\ reader.last # <<>>
  /\ Cardinality(reader.candidates) = 2
  /\ reader.last \in reader.candidates

\* ---------------------------------------------------------------- C3
\* C3: a scope on counter c that lasts less than one wrap period of micros()
\* adds, on exit, exactly its true duration to c's accumulator and one to c's
\* sample count, also when micros() wraps between entry and exit.
C3_ScopeAddsElapsed ==
  [][\A c \in CounterNames :
       (/\ perfHist'.scopes[c] = perfHist.scopes[c] + 1
        /\ perfHist'.elapsed[c] - perfHist.elapsed[c] < UInt32Mod)
       => /\ g_PerfCounters'[c].accumulator =
               (g_PerfCounters[c].accumulator
                  + (perfHist'.elapsed[c] - perfHist.elapsed[c])) % UInt64Mod
          /\ g_PerfCounters'[c].counter = g_PerfCounters[c].counter + 1]_vars

\* ---------------------------------------------------------------- C4
\* C4: when the publish of an iteration has completed the characteristic holds
\* the encoding of the three readings analogRead returned for channels 1, 2, 3
\* in that iteration, and over the iteration the sample counts of
\* allMeasurements and ble each went up by exactly one.
C4_IterationPublishesItsReadings ==
  /\ pc \in {"ble_end", "report", "delay"}
       => /\ Len(attr) = 6
          /\ \A k \in 1..3 : LittleEndian16(attr[2 * k - 1], attr[2 * k]) = reading[k]
  /\ pc = "loop_begin"
       => /\ g_PerfCounters["allMeasurements"].counter = iter
          /\ g_PerfCounters["ble"].counter = iter
  /\ pc \in {"report", "delay"}
       => /\ g_PerfCounters["allMeasurements"].counter = iter + 1
          /\ g_PerfCounters["ble"].counter = iter + 1

\* the second iteration has published readings that differ between channels
C4_Witness ==
  /\ pc = "report"
  /\ iter = 1
  /\ reading[1] = 513
  /\ reading[2] = 0
  /\ reading[3] = 513
  /\ attr = <<1, 2, 0, 0, 1, 2>>

\* ---------------------------------------------------------------- C5
\* C5: encode yields exactly 6 bytes, the little-endian 16-bit values of m1, m2,
\* m3 in that order, whatever the measurements' timestamps.
C5_EncodeLayout ==
  codec.op = "encode"
    => /\ Len(codec.bytes) = 6
       /\ \A i \in 1..6 : IsByte(codec.bytes[i])
       /\ \A k \in 1..3 :
            LittleEndian16(codec.bytes[2 * k - 1], codec.bytes[2 * k]) = codec.values[k]

\* an encoding of three different values with nonzero high and low bytes and
\* nonzero timestamps
C5_Witness ==
  /\ codec.op = "encode"
  /\ codec.values = <<4095, 256, 65535>>
  /\ codec.times = <<7, 0, 7>>
  /\ codec.bytes = <<255, 15, 0, 1, 255, 255>>

\* ---------------------------------------------------------------- C6
\* C6: decode inverts encode on every triple of 16-bit values, and encode
\* inverts decode on every 6-byte sequence.
C6_RoundTrip ==
  /\ codec.op = "encode" => codec.back = codec.values
  /\ codec.op = "decode" => codec.back = codec.bytes

\* a decoding of bytes whose low and high bytes differ, encoded back
C6_Witness ==
  /\ codec.op = "decode"
  /\ codec.bytes = <<1, 255, 0, 1, 255, 0>>
  /\ codec.values = <<65281, 256, 255>>
  /\ codec.back = codec.bytes

\* ---------------------------------------------------------------- C7
\* C7: from the start of the service on, the characteristic's value is exactly
\* 6 bytes, three little-endian 16-bit fields each holding the initial zero or
\* a converter reading, before the first publish and after any publish.
C7_ValueIsSixBytes ==
  stack.started
    => /\ Len(attr) = 6
       /\ \A i \in 1..6 : IsByte(attr[i])
       /\ lock # "loop"
            => \A k \in 1..3 :
                 LittleEndian16(attr[2 * k - 1], attr[2 * k]) \in AdcValues \cup {0}

\* the device advertises and a publish has replaced the initial value
C7_Witness ==
  /\ stack.advertising
  /\ iter = 1
  /\ lock = "free"
  /\ Len(attr) = 6
  /\ attr # InitialValue

\* ---------------------------------------------------------------- C8
\* C8: the average a report prints for a counter equals the floor of the sum of
\* the true durations of the scopes recorded on it over their number, and a
\* counter without samples gets no line.
C8_AverageIsMeanDuration ==
  pc = "delay"
    => \A i \in DOMAIN serial.out :
         LET c == serial.out[i].label
         IN  /\ perfHist.scopes[c] >= 1
             /\ serial.out[i].avgMicros = perfHist.elapsed[c] \div perfHist.scopes[c]

\* ---------------------------------------------------------------- C9
\* C9: each report prints, for every counter with samples, exactly one line with
\* its label, its average and 1000000 / average, the division being defined,
\* and no line for a counter without samples.
C9_ReportLines ==
  pc \in {"delay", "trapped"}
    => \A c \in CounterNames :
         LET lines == {i \in DOMAIN serial.out : serial.out[i].label = c}
             avg == g_PerfCounters[c].accumulator \div g_PerfCounters[c].counter
         IN  IF g_PerfCounters[c].counter > 0
             THEN /\ avg > 0
                  /\ Cardinality(lines) = 1
                  /\ \A i \in lines : /\ serial.out[i].avgMicros = avg
                                      /\ serial.out[i].hz = HzNumerator \div avg
             ELSE lines = {}

\* ---------------------------------------------------------------- C10
\* C10: no step lowers the accumulated duration or the sample count of any
\* counter.
C10_CountersOnlyGrow ==
  [][\A c \in CounterNames :
       /\ g_PerfCounters'[c].accumulator >= g_PerfCounters[c].accumulator
       /\ g_PerfCounters'[c].counter >= g_PerfCounters[c].counter]_vars

\* ---------------------------------------------------------------- C11
\* the encoding of this iteration's readings, a function of the converter's
\* readings alone
ReadingsEncoded ==
  <<reading[1] % 256, reading[1] \div 256, reading[2] % 256, reading[2] \div 256,
    reading[3] % 256, reading[3] \div 256>>

\* the positions of the loop after the publish of the iteration
AfterPublish == {"ble_end", "report", "delay", "trapped"}

\* the positions of the loop
InLoop == {"loop_begin", "read1", "read2", "read3", "all_end", "ble_begin", "publish"}
            \cup AfterPublish

LoopOrder ==
  {<<"loop_begin", "read1">>, <<"read1", "read2">>, <<"read2", "read3">>,
   <<"read3", "all_end">>, <<"all_end", "ble_begin">>, <<"ble_begin", "publish">>,
   <<"publish", "ble_end">>, <<"ble_end", "report">>, <<"report", "delay">>,
   <<"report", "trapped">>, <<"delay", "loop_begin">>}

\* C12: the steps of an iteration happen in the order sample 1, sample 2,
\* sample 3, encode and publish, report, sleep; a publish starts only after the
\* three samples of its iteration; and no step of the next iteration starts
\* before the publish and the sleep of this one are complete.
C12_StepOrder ==
  /\ [][(pc \in InLoop /\ pc' # pc) => <<pc, pc'>> \in LoopOrder]_vars
  /\ [][iter' # iter => (pc = "delay" /\ pc' = "loop_begin" /\ iter' = iter + 1)]_vars
  /\ [][stack'.valueSets # stack.valueSets
          => (pc \in {"set_initial", "publish"} /\ stack'.valueSets = stack.valueSets + 1)]_vars
  /\ [][serial' # serial => pc = "report"]_vars
  /\ []((pc = "publish" /\ wr.phase = "copy")
          => /\ \A k \in 1..3 : reading[k] # -1
             /\ message = [v1 |-> reading[1], v2 |-> reading[2], v3 |-> reading[3]])
  /\ [](pc \in (InLoop \ AfterPublish) => stack.valueSets = 1 + iter)
  /\ [](pc \in (AfterPublish \ {"trapped"}) => stack.valueSets = 2 + iter)

\* the second iteration samples its first channel, the first iteration's
\* publish, report and sleep being complete
C12_Witness ==
  /\ pc = "read2"
  /\ iter = 1
  /\ stack.valueSets = 2
  /\ Len(serial.out) > 0
  /\ reading[1] # -1

\* ---------------------------------------------------------------- C13
\* C13: once the wireless stack has failed during the construction of BLEApi the
\* system never enters the loop: no sample is taken and nothing is published.
C13_InitFailureHalts ==
  stack.failed
    => /\ pc \notin InLoop
       /\ \A k \in 1..3 : reading[k] = -1
       /\ stack.valueSets <= 1

\* ---------------------------------------------------------------- C14
\* the stack as BLEApi's constructor leaves it, whatever has been published since
Configured(st) == [st EXCEPT !.valueSets = 0]

\* C14: the constructor of BLEApi runs once, before the first iteration; when the
\* advertising starts there is exactly one service with exactly one read-only
\* characteristic whose initial value is set, the service is started and its
\* identifier is in the advertisement; every publish of the loop happens while
\* advertising.
C14_SetupBeforeAdvertising ==
  /\ [](stack.advertising
          => /\ stack.services = 1 /\ stack.characteristics = 1 /\ stack.readOnly
             /\ stack.valueSets >= 1 /\ stack.started /\ stack.advertisedUUIDs = 1)
  /\ [](pc \in InLoop => stack.advertising)
  /\ [](stack.valueSets >= 2 => stack.advertising)
  /\ [][(pc \in InLoop) => (pc' \in InLoop /\ Configured(stack') = Configured(stack))]_vars
  /\ [][stack'.advertising # stack.advertising
          => (pc = "start_advertising" /\ pc' = "loop_begin")]_vars

C14_Witness ==
  /\ stack.advertising /\ stack.valueSets = 2 /\ pc = "ble_end"

\* ---------------------------------------------------------------- C15
\* C15: a GetClockValue call before which micros() wrapped two or more times
\* since the previous call returns less than the true microseconds since boot,
\* short by a positive multiple of the wrap period, and changes nothing but the
\* clock's own two variables: nothing is written to the serial port and the
\* program continues where it was.
C15_LostWraps ==
  [][(clockHist' # clockHist /\ clockHist'.wraps >= 2)
       => /\ g_ClockAccumulator' < now'
          /\ (now' - g_ClockAccumulator') % UInt32Mod = 0
          /\ UNCHANGED <<pc, serial, perfVars, dataVars, bleVars>>]_vars

\* a call made after two wraps without a call: the value returned is short
C15_Witness ==
  /\ clockHist.called
  /\ clockHist.wraps >= 2
  /\ clockHist.callTime = now
  /\ g_ClockAccumulator < now

\* ---------------------------------------------------------------- C19
\* C19: whatever the spacing of the calls, the value GetClockValue returns never
\* decreases from one call to the next, as long as the 64-bit accumulator has
\* not overflowed.
C19_NeverDecreases ==
  [][(now' < UInt64Mod) => g_ClockAccumulator' >= g_ClockAccumulator]_vars

\* a call after a gap of a wrap period or more, micros() having fallen below
\* the value the previous call saw
C19_Witness ==
  /\ clockHist.called
  /\ ~clockHist.spaced
  /\ clockHist.callTime = now
  /\ g_ClockAccumulator > 0
  /\ g_ClockAccumulator < now
  /\ g_ClockLastMicros < g_ClockAccumulator

\* ---------------------------------------------------------------- C16
\* the control position right after m_i = ReadMeasurement(A_i)
AfterRead(i) == IF i = 1 THEN "read2" ELSE IF i = 2 THEN "read3" ELSE "all_end"

\* m1, m2, m3 are default-constructed (time 0, value 0) when an iteration starts;
\* right after ReadMeasurement(A_i), m_i holds the reading unmodified and the
\* value GetClockValue returned during that call
ReadMeasurementStamps ==
  /\ DataMeasurementDefault = [time |-> 0, value |-> 0]
  /\ pc = "read1" => \A i \in 1..3 : m[i] = DataMeasurementDefault
  /\ \A i \in 1..3 :
       pc = AfterRead(i)
         => /\ m[i].value = reading[i]
            /\ m[i].time = g_ClockAccumulator
            /\ \A j \in (i + 1)..3 : m[j] = DataMeasurementDefault

\* C16 as stated: ..., and the timestamp is nonzero whenever at least one
\* microsecond has passed since boot at the call.
C16_TimestampNonzero ==
  /\ ReadMeasurementStamps
  /\ \A i \in 1..3 :
       (pc = AfterRead(i) /\ clockHist.callTime >= 1) => m[i].time # 0

\* C16: a default DataMeasurement has time 0 and value 0; ReadMeasurement returns
\* the reading unmodified, stamped with the value GetClockValue returned during
\* the call, which is nonzero whenever at least one microsecond has passed since
\* boot, provided consecutive GetClockValue calls (and boot and the first call)
\* were less than one wrap period of micros() apart.
C16_TimestampNonzeroIfSpaced ==
  /\ ReadMeasurementStamps
  /\ \A i \in 1..3 :
       (pc = AfterRead(i) /\ clockHist.spaced /\ clockHist.callTime >= 1)
         => (m[i].time # 0 /\ m[i].time = clockHist.callTime)

\* the first sample taken, one microsecond or more after boot
C16_Witness ==
  /\ pc = "read2"
  /\ clockHist.spaced
  /\ clockHist.callTime >= 1
  /\ m[1] = [time |-> clockHist.callTime, value |-> 513]
  /\ m[2] = DataMeasurementDefault

\* ---------------------------------------------------------------- C17
\* C17: the value of the characteristic changes only inside a setValue call, made
\* by BLEApi's constructor or by setMeasurementMessage in the publish step;
\* sampling, the report, the delay and the steps of a remote read leave it as
\* it is.
C17_OnlyPublishWrites ==
  /\ [][(attr' # attr \/ committed' # committed)
          => /\ pc \in {"set_initial", "publish"}
             /\ wr' # wr
             /\ reader' = reader]_vars
  /\ [][(pc \notin {"set_initial", "publish"})
          => (attr' = attr /\ committed' = committed)]_vars
  /\ [][(reader' # reader) => (attr' = attr /\ committed' = committed)]_vars

\* a nonzero measurement has been published and a remote read has returned it
C17_Witness ==
  /\ pc \in {"report", "delay"}
  /\ stack.valueSets = 2
  /\ committed = attr
  /\ attr[1] # 0
  /\ reader.pc = "idle"
  /\ reader.last = attr

\* ---------------------------------------------------------------- C18
\* C18: once BLEApi is constructed the program stays in the loop for ever: it is
\* always at one of the statements of the loop body and never in a state from
\* which the loop does not continue, so that a publish comes round again and
\* again.
C18_StaysInLoop ==
  /\ pc # "trapped"
  /\ stack.advertising => pc \in (InLoop \ {"trapped"})

\* ---------------------------------------------------------------- C20
\* C20: at the report step the count of singleMeasurement is three times the
\* count of allMeasurements, and the counts of ble and allMeasurements both
\* equal the number of iterations whose sampling and publishing are done; a
\* step that changes one counter leaves the other two as they were.
C20_CountRelations ==
  /\ [](pc = "report"
          => /\ g_PerfCounters["singleMeasurement"].counter
                  = 3 * g_PerfCounters["allMeasurements"].counter
             /\ g_PerfCounters["ble"].counter = g_PerfCounters["allMeasurements"].counter
             /\ g_PerfCounters["allMeasurements"].counter = iter + 1)
  /\ [][\A c \in CounterNames :
          (g_PerfCounters'[c] # g_PerfCounters[c])
            => \A o \in CounterNames \ {c} : g_PerfCounters'[o] = g_PerfCounters[o]]_vars

\* the report step of the second iteration
C20_Witness ==
  /\ pc = "report"
  /\ iter = 1
  /\ g_PerfCounters["allMeasurements"].counter = 2
  /\ g_PerfCounters["singleMeasurement"].counter = 6
  /\ g_PerfCounters["ble"].counter = 2

\* ---------------------------------------------------------------- C21
\* C21: every value a remote read returns is the initial six zero bytes or the
\* message of an iteration whose setMeasurementMessage call has begun, and the
\* reads of the reader can be matched to setValue calls in an order that never
\* goes back: a read that follows a read of call g's value returns the value of
\* a call h >= g.
C21_ReadsNeverGoBack ==
  /\ [](reader.gen # -1)
  /\ [](Len(published) >= 1 => published[1] = <<0, 0, 0, 0, 0, 0>>)
  /\ []((reader.pc = "idle" /\ reader.last # <<>>)
          => /\ reader.gen \in 1..Len(published)
             /\ published[reader.gen] = reader.last
             /\ Len(published) <= stack.valueSets + 1)
  /\ [][reader'.gen >= reader.gen]_vars

\* a read has returned the message of the second iteration, which differs from
\* the message of the first and from the initial value
C21_Witness ==
  /\ reader.pc = "idle"
  /\ reader.gen = 3
  /\ reader.last = published[3]
  /\ published[3] # published[2]
  /\ published[2] # published[1]
====
